---------------------------- MODULE Spec2Model ----------------------------
(***************************************************************************)
(* A model of scraper.py: the static team directory, the operations of     *)
(* TeamStats, the table parser clean_raw and the type coercion data_mung.  *)
(*                                                                         *)
(* A Python str is a sequence of one-character strings, so that lower(),   *)
(* the substring test, split() and the numeric conversions are computed    *)
(* character by character as the code computes them.                       *)
(***************************************************************************)
EXTENDS Integers, Sequences, FiniteSets, TLC

VARIABLES
    url,            \* TeamStats.url
    hit_stats,      \* TeamStats.hit_stats: NoneValue or a DataFrame
    pitch_stats,    \* TeamStats.pitch_stats: NoneValue or a DataFrame
    pc,             \* the statement of pull_data to run next ("idle": no call in progress)
    browsers,       \* Chrome sessions opened and not yet quit
    location,       \* the address the open browser was last sent to
    python_button,  \* pull_data's python_button: how many elements the lookup found
    trace,          \* the statements the running (or last) pull_data has run, in order
    call,           \* the last operation called on the session, with its argument
    outcome,        \* how it ended: "running", "returned", or the exception's name
    output,         \* what the last get_stats returned or the last show_* printed
    start,          \* url and tables as they were when the last operation was called
    fetched,        \* whether some pull_data has run to completion
    web_text,       \* clean_raw on its own: web_data.text
    head_ind_start, \* clean_raw on its own: head_ind_start
    parsed,         \* clean_raw on its own: NotCalled, or what the call produced
    stats_df,       \* data_mung on its own: the DataFrame it edits in place
    df_in,          \* data_mung on its own: stats_df before the first call
    df_prev,        \* data_mung on its own: stats_df before the last call
    mung_calls,     \* data_mung on its own: calls made so far
    mung_raised     \* data_mung on its own: exception of the last call, or "none"

vars == <<url, hit_stats, pitch_stats, pc, browsers, location, python_button, trace,
          call, outcome, output, start, fetched, web_text, head_ind_start, parsed,
          stats_df, df_in, df_prev, mung_calls, mung_raised>>

sessionVars == <<url, hit_stats, pitch_stats, pc, browsers, location, python_button,
                 trace, call, outcome, output, start, fetched>>
parseVars == <<web_text, head_ind_start, parsed>>
mungVars == <<stats_df, df_in, df_prev, mung_calls, mung_raised>>

-----------------------------------------------------------------------------
(* Python values and str operations *)

NoneValue == [kind |-> "None"]
StrVal(s) == [kind |-> "str", val |-> s]
IntVal(n) == [kind |-> "int", val |-> n]

UpperCase == <<"A","B","C","D","E","F","G","H","I","J","K","L","M","N","O","P","Q","R","S","T","U","V","W","X","Y","Z">>
LowerCase == <<"a","b","c","d","e","f","g","h","i","j","k","l","m","n","o","p","q","r","s","t","u","v","w","x","y","z">>
Digits == <<"0","1","2","3","4","5","6","7","8","9">>

RECURSIVE FirstAt(_, _, _)
\* the first position from i on at which s holds c, 0 when there is none
FirstAt(c, s, i) ==
    IF i > Len(s) THEN 0 ELSE IF s[i] = c THEN i ELSE FirstAt(c, s, i + 1)

\* position of the first c in the sequence s, 0 when absent
IndexOf(c, s) == FirstAt(c, s, 1)

\* one character lowered
lower_char(c) ==
    LET i == IndexOf(c, UpperCase) IN IF i > 0 THEN LowerCase[i] ELSE c

\* str.lower()
lower(s) == [i \in 1..Len(s) |-> lower_char(s[i])]

\* the `in` operator on two str: needle occurs in hay as a contiguous run
StrIn(needle, hay) ==
    \E i \in 0..(Len(hay) - Len(needle)) :
        SubSeq(hay, i + 1, i + Len(needle)) = needle

RECURSIVE split(_, _)
\* str.split(sep) for a one-character sep: always at least one piece
split(s, sep) ==
    LET i == IndexOf(sep, s)
    IN  IF i = 0 THEN <<s>>
        ELSE <<SubSeq(s, 1, i - 1)>> \o split(SubSeq(s, i + 1, Len(s)), sep)

-----------------------------------------------------------------------------
(* The team directory *)

teams == <<
    <<<<"A","r","i","z","o","n","a"," ","D","i","a","m","o","n","d","b","a","c","k","s">>, "dbacks">>,
    <<<<"A","t","l","a","n","t","a"," ","B","r","a","v","e","s">>, "braves">>,
    <<<<"B","a","l","t","i","m","o","r","e"," ","O","r","i","o","l","e","s">>, "orioles">>,
    <<<<"B","o","s","t","o","n"," ","R","e","d"," ","S","o","x">>, "redsox">>,
    <<<<"C","h","i","c","a","g","o"," ","C","u","b","s">>, "cubs">>,
    <<<<"C","h","i","c","a","g","o"," ","W","h","i","t","e"," ","S","o","x">>, "whitesox">>,
    <<<<"C","i","n","c","i","n","n","a","t","i"," ","R","e","d","s">>, "reds">>,
    <<<<"C","l","e","v","e","l","a","n","d"," ","I","n","d","i","a","n","s">>, "indians">>,
    <<<<"C","o","l","o","r","a","d","o"," ","R","o","c","k","i","e","s">>, "rockies">>,
    <<<<"D","e","t","r","o","i","t"," ","T","i","g","e","r","s">>, "tigers">>,
    <<<<"H","o","u","s","t","o","n"," ","A","s","t","r","o","s">>, "astros">>,
    <<<<"K","a","n","s","a","s"," ","C","i","t","y"," ","R","o","y","a","l","s">>, "royals">>,
    <<<<"L","o","s"," ","A","n","g","e","l","e","s"," ","A","n","g","e","l","s">>, "angels">>,
    <<<<"L","o","s"," ","A","n","g","e","l","e","s"," ","D","o","d","g","e","r","s">>, "dodgers">>,
    <<<<"M","i","a","m","i"," ","M","a","r","l","i","n","s">>, "marlins">>,
    <<<<"M","i","l","w","a","u","k","e","e"," ","B","r","e","w","e","r","s">>, "brewers">>,
    <<<<"M","i","n","n","e","s","o","t","a"," ","T","w","i","n","s">>, "twins">>,
    <<<<"N","e","w"," ","Y","o","r","k"," ","M","e","t","s">>, "mets">>,
    <<<<"N","e","w"," ","Y","o","r","k"," ","Y","a","n","k","e","e","s">>, "yankees">>,
    <<<<"O","a","k","l","a","n","d"," ","A","t","h","l","e","t","i","c","s">>, "athletics">>,
    <<<<"P","h","i","l","a","d","e","l","i","p","h","i","a"," ","P","h","i","l","l","i","e","s">>, "phillies">>,
    <<<<"P","i","t","t","s","b","u","r","g","h"," ","P","i","r","a","t","e","s">>, "pirates">>,
    <<<<"S","a","n"," ","D","i","e","g","o"," ","P","a","d","r","e","s">>, "padres">>,
    <<<<"S","a","n"," ","F","r","a","n","c","i","s","c","o"," ","G","i","a","n","t","s">>, "giants">>,
    <<<<"S","e","a","t","t","l","e"," ","M","a","r","i","n","e","r","s">>, "mariners">>,
    <<<<"S","t","."," ","L","o","u","i","s"," ","C","a","r","d","e","n","a","l","s">>, "cardenals">>,
    <<<<"T","a","m","p","a"," ","B","a","y"," ","R","a","y","s">>, "rays">>,
    <<<<"T","e","x","a","s"," ","R","a","n","g","e","r","s">>, "rangers">>,
    <<<<"T","o","r","o","n","t","o"," ","B","l","u","e"," ","J","a","y","s">>, "bluejays">>,
    <<<<"W","a","s","h","i","n","g","t","o","n"," ","N","a","t","i","o","n","a","l","s">>, "nationals">> >>

-----------------------------------------------------------------------------
(* pandas.DataFrame, as far as scraper.py uses it.                         *)
(* A DataFrame is [kind, columns, dtypes, rows]: rows is a sequence of     *)
(* rows, each with one cell per column; a cell is StrVal(..), IntVal(..),        *)
(* Float32(..) or NoneValue (a missing value).                             *)

Raise(exc) == [kind |-> "raise", exc |-> exc]

Max(S) == CHOOSE m \in S : \A x \in S : x <= m

\* a row filled up with missing values to the given width
Padded(row, width) == [j \in 1..width |-> IF j <= Len(row) THEN row[j] ELSE NoneValue]

\* pd.DataFrame(df_lst, columns=headers) for a list of lists of str:
\* the data is as wide as its longest row, shorter rows are filled with
\* missing values, and a width other than len(headers) is a ValueError
\* ("N columns passed, passed data had M columns"); an empty list gives an
\* empty frame with the given columns. Every column starts as dtype object.
DataFrame(df_lst, headers) ==
    IF df_lst # <<>> /\ Max({Len(df_lst[k]) : k \in 1..Len(df_lst)}) # Len(headers)
    THEN Raise("ValueError")
    ELSE [kind    |-> "DataFrame",
          columns |-> headers,
          dtypes  |-> [j \in 1..Len(headers) |-> "object"],
          rows    |-> [k \in 1..Len(df_lst) |-> Padded(df_lst[k], Len(headers))]]

-----------------------------------------------------------------------------
(* clean_raw *)

Newline == "\n"
Space == " "

\* raw_data = web_data.text.split('\n')
raw_data(text) == split(text, Newline)

\* headers = raw_data[:head_ind_start]
headers(raw, hd) == SubSeq(raw, 1, IF hd <= Len(raw) THEN hd ELSE Len(raw))

\* data = raw_data[head_ind_start:]
data_of(raw, hd) == SubSeq(raw, hd + 1, Len(raw))

\* range(len(data) - 2): the (0-based) positions the for loop visits
scan_range_short(data) == 0..(Len(data) - 4)
scan_range(data) == 0..(Len(data) - 3)

\* len(data[row]) <= 2
is_marker(data, row) == Len(data[row + 1]) <= 2

\* clean_data = [team_name] + num_data.split(' ') for the marker at `row`
clean_data_unsplit(data, row) == <<StrVal(data[row + 2]), StrVal(data[row + 3])>>
clean_data_marker(data, row) ==
    LET numbers == split(data[row + 3], Space)
    IN  <<StrVal(data[row + 1])>> \o [j \in 1..Len(numbers) |-> StrVal(numbers[j])]
clean_data(data, row) ==
    LET numbers == split(data[row + 3], Space)
    IN  <<StrVal(data[row + 2])>> \o [j \in 1..Len(numbers) |-> StrVal(numbers[j])]

RECURSIVE df_lst_from(_, _)
\* df_lst as the for loop builds it from position `row` on
df_lst_from(data, row) ==
    IF row \notin scan_range(data) THEN <<>>
    ELSE (IF is_marker(data, row) THEN <<clean_data(data, row)>> ELSE <<>>)
         \o df_lst_from(data, row + 1)

\* clean_raw(web_data, head_ind_start) for web_data.text = text:
\* the DataFrame returned, or Raise("ValueError") from the DataFrame constructor
clean_raw(text, hd) ==
    LET raw == raw_data(text)
    IN  DataFrame(df_lst_from(data_of(raw, hd), 0), headers(raw, hd))

-----------------------------------------------------------------------------
(* data_mung *)

\* A float32 cell is written as the decimal it was read from, num / 10^places:
\* the decimals of the model have at most four significant digits, which
\* float32 keeps apart, and the integers are far below 2^24.
Float32(n, places) == [kind |-> "float32", num |-> n, places |-> places]

RECURSIVE Pow10(_)
Pow10(k) == IF k = 0 THEN 1 ELSE 10 * Pow10(k - 1)

RECURSIVE Normal(_, _)
\* n / 10^places with no trailing zero in the fraction, so that equal
\* numbers are equal values
Normal(n, places) ==
    IF places > 0 /\ n % 10 = 0 THEN Normal(n \div 10, places - 1)
    ELSE Float32(n, places)

RECURSIVE strip(_)
\* str.strip() of spaces, which int() and float() apply to their argument
strip(s) ==
    IF s # <<>> /\ Head(s) = Space THEN strip(Tail(s))
    ELSE IF s # <<>> /\ s[Len(s)] = Space THEN strip(SubSeq(s, 1, Len(s) - 1))
    ELSE s

AllDigits(s) == \A i \in 1..Len(s) : IndexOf(s[i], Digits) > 0

RECURSIVE Decimal(_)
\* the number a run of digits writes
Decimal(s) ==
    IF s = <<>> THEN 0
    ELSE 10 * Decimal(SubSeq(s, 1, Len(s) - 1)) + (IndexOf(s[Len(s)], Digits) - 1)

\* int(s) for a str of letters, digits, '.' and spaces: digits only, after strip
int_of_str(s) ==
    IF strip(s) # <<>> /\ AllDigits(strip(s)) THEN IntVal(Decimal(strip(s)))
    ELSE Raise("ValueError")

\* float(s) for such a str: digits with at most one '.', and at least one digit
float_of_str(s) ==
    LET t == strip(s)
        dot == IndexOf(".", t)
        whole == IF dot = 0 THEN t ELSE SubSeq(t, 1, dot - 1)
        frac == IF dot = 0 THEN <<>> ELSE SubSeq(t, dot + 1, Len(t))
    IN  IF AllDigits(whole) /\ AllDigits(frac) /\ Len(whole) + Len(frac) > 0
        THEN Normal(Decimal(whole \o frac), Len(frac))
        ELSE Raise("ValueError")

\* one cell converted to int: int(str), int of a missing value is a TypeError,
\* a float is truncated
to_int(cell) ==
    CASE cell.kind = "str" -> int_of_str(cell.val)
      [] cell.kind = "None" -> Raise("TypeError")
      [] cell.kind = "int" -> cell
      [] cell.kind = "float32" -> IntVal(cell.num \div Pow10(cell.places))

\* one cell converted to float32
to_float32(cell) ==
    CASE cell.kind = "str" -> float_of_str(cell.val)
      [] cell.kind = "None" -> Raise("TypeError")
      [] cell.kind = "int" -> Float32(cell.val, 0)
      [] cell.kind = "float32" -> cell

to_dtype(cell, dtype) == IF dtype = "int" THEN to_int(cell) ELSE to_float32(cell)

\* float_cols, the duplicate 'AVG' included
float_cols == <<<<"A","V","G">>, <<"O","B","P">>, <<"S","L","G">>, <<"O","P","S">>, <<"I","P">>, <<"E","R","A">>, <<"W","H","I","P">>, <<"A","V","G">>>>

\* `col in float_cols`
in_float_cols(col) == \E k \in 1..Len(float_cols) : float_cols[k] = col

\* the dtype the if/elif picks for the column named col
wanted_dtype(col) == IF ~ in_float_cols(col) THEN "int" ELSE "float32"

\* the cells of column j, top to bottom
column_cells(df, j) == [k \in 1..Len(df.rows) |-> df.rows[k][j]]

\* Series.astype(dtype) of column j: the converted cells, or the exception
\* of the first cell (top to bottom) that does not convert
astype_via_int(df, j, dtype) ==
    LET cells == column_cells(df, j)
        conv == [k \in 1..Len(cells) |->
                   IF cells[k].kind \in {"int", "float32"}
                   THEN to_dtype(to_int(cells[k]), dtype)
                   ELSE to_dtype(cells[k], dtype)]
        bad == {k \in 1..Len(cells) : conv[k].kind = "raise"}
    IN  IF bad = {} THEN [kind |-> "Series", cells |-> conv]
        ELSE conv[CHOOSE k \in bad : \A m \in bad : k <= m]
astype(df, j, dtype) ==
    LET cells == column_cells(df, j)
        conv == [k \in 1..Len(cells) |-> to_dtype(cells[k], dtype)]
        bad == {k \in 1..Len(cells) : conv[k].kind = "raise"}
    IN  IF bad = {} THEN [kind |-> "Series", cells |-> conv]
        ELSE conv[CHOOSE k \in bad : \A m \in bad : k <= m]

\* stats_df[col] = series, for column j
set_column(df, j, series, dtype) ==
    [df EXCEPT !.dtypes[j] = dtype,
               !.rows = [k \in 1..Len(df.rows) |->
                           [df.rows[k] EXCEPT ![j] = series.cells[k]]]]

RECURSIVE mung_from(_, _)
\* the for loop of data_mung from column j on: a ValueError leaves the
\* column alone and goes on, any other exception leaves data_mung
mung_from(df, j) ==
    IF j > Len(df.columns) THEN [df |-> df, raised |-> "none"]
    ELSE LET dtype == wanted_dtype(df.columns[j])
             got == astype(df, j, dtype)
         IN  IF got.kind = "Series" THEN mung_from(set_column(df, j, got, dtype), j + 1)
             ELSE IF got.exc = "ValueError" THEN mung_from(df, j + 1)
             ELSE [df |-> df, raised |-> got.exc]

\* data_mung(stats_df): stats_df as the call leaves it, and the exception
\* it raised ("none" when it returned)
data_mung(df) == mung_from(df, 1)

-----------------------------------------------------------------------------
(* TeamStats: the session *)

\* f"https://www.mlb.com/{slug}/stats/team/"
team_url(slug) == "https://www.mlb.com/" \o slug \o "/stats/team/"

RECURSIVE slugs_matching_exact(_, _)
slugs_matching_exact(team_name, i) ==
    IF i > Len(teams) THEN <<>>
    ELSE (IF StrIn(team_name, teams[i][1]) THEN <<teams[i][2]>> ELSE <<>>)
         \o slugs_matching_exact(team_name, i + 1)

RECURSIVE slugs_matching(_, _)
\* [n[1] for n in teams if team_name.lower() in n[0].lower()], from entry i on
slugs_matching(team_name, i) ==
    IF i > Len(teams) THEN <<>>
    ELSE (IF StrIn(lower(team_name), lower(teams[i][1])) THEN <<teams[i][2]>> ELSE <<>>)
         \o slugs_matching(team_name, i + 1)

new_team_exact(team_name) == slugs_matching_exact(team_name, 1)
new_team(team_name) == slugs_matching(team_name, 1)

\* the team names change_url is called with
TeamNames == { <<"r","e","d"," ","s","o","x">>, <<"R","E","D"," ","S","O","X">>, <<"s","o","x">>, <<"n","e","w"," ","y","o","r","k">>, <<"Y","o","r","k"," ","Y">>, <<>>,
               <<"c","a","r","d","i","n","a","l","s">>, <<"z","z","z","-","n","o","-","t","e","a","m">> }

\* new_team for each of them, evaluated once
new_team_of == [team_name \in TeamNames |-> new_team(team_name)]

\* the header counts pull_data passes to clean_raw
HitHeaderCount == 18
PitchHeaderCount == 21
\* seconds pull_data sleeps
SleepSeconds == 5

\* the most browser sessions the model lets pile up unreleased
MaxBrowsers == 2

HitHeaderLines == <<"T","E","A","M","\n","L","E","A","G","U","E","\n","G","\n","A","B","\n","R","\n","H","\n","2","B","\n","3","B","\n","H","R","\n","R","B","I","\n","B","B","\n","S","O","\n","S","B","\n","C","S","\n","A","V","G","\n","O","B","P","\n","S","L","G","\n","O","P","S">>
PitchHeaderLines == <<"T","E","A","M","\n","L","E","A","G","U","E","\n","W","\n","L","\n","E","R","A","\n","G","\n","G","S","\n","C","G","\n","S","H","O","\n","S","V","\n","S","V","O","\n","I","P","\n","H","\n","R","\n","E","R","\n","H","R","\n","H","B","\n","B","B","\n","S","O","\n","W","H","I","P","\n","A","V","G">>

\* what the stats block of the page may read: a hitting table, a pitching
\* table, and a hitting table in which one team name is two characters long
HitPage == HitHeaderLines
    \o <<"\n","1","\n","N","e","w"," ","Y","o","r","k"," ","Y","a","n","k","e","e","s","\n","A","L"," ","9"," ","3","0"," ","4"," ","8"," ","2"," ","0"," ","1"," ","4"," ","3"," ","7"," ","1"," ","0"," ",".","2","6","7"," ",".","3","3","3"," ",".","4","3","3"," ",".","7","6","6">>
PitchPage == PitchHeaderLines
    \o <<"\n","1","\n","N","e","w"," ","Y","o","r","k"," ","Y","a","n","k","e","e","s","\n","A","L"," ","5"," ","4"," ","3",".","5","0"," ","9"," ","9"," ","0"," ","1"," ","2"," ","3"," ","8","1",".","0"," ","7","0"," ","3","5"," ","3","1"," ","9"," ","3"," ","2","5"," ","8","0"," ","1",".","1","7"," ",".","2","4","0">>
ShortNamePage == HitHeaderLines
    \o <<"\n","1","\n","N","Y","\n","A","L"," ","9"," ","3","0"," ","4"," ","8"," ","2"," ","0"," ","1"," ","4"," ","3"," ","7"," ","1"," ","0"," ",".","2","6","7"," ",".","3","3","3"," ",".","4","3","3"," ",".","7","6","6">>
    \o <<"\n","2","\n","B","o","s","t","o","n"," ","R","e","d"," ","S","o","x","\n","A","L"," ","9"," ","3","1"," ","5"," ","9"," ","1"," ","1"," ","0"," ","5"," ","2"," ","6"," ","0"," ","1"," ",".","2","9","0"," ",".","3","3","3"," ",".","3","8","7"," ",".","7","2","0">>
PageTexts == {HitPage, PitchPage, ShortNamePage}

\* clean_raw of each of them with either header count, evaluated once
clean_raw_of == [text \in PageTexts |->
                   [hd \in {HitHeaderCount, PitchHeaderCount} |-> clean_raw(text, hd)]]

Snapshot == [url |-> url, hit_stats |-> hit_stats, pitch_stats |-> pitch_stats]

\* the statements of pull_data in program order, by the name used in pc
Statements == <<"Chrome", "get", "sleep1", "find_hit", "clean_raw_hit", "find_button",
                "click1", "click2", "sleep2", "find_pitch", "clean_raw_pitch", "quit",
                "data_mung_hit", "data_mung_pitch">>

\* the statement that follows statement s ("idle" after the last)
following_one_click(s) ==
    IF s = "click1" THEN "sleep2"
    ELSE IF IndexOf(s, Statements) = Len(Statements) THEN "idle"
    ELSE Statements[IndexOf(s, Statements) + 1]
following(s) ==
    IF IndexOf(s, Statements) = Len(Statements) THEN "idle"
    ELSE Statements[IndexOf(s, Statements) + 1]

\* statement s ran without raising
Ran(s, ev) ==
    /\ pc = s
    /\ pc' = following(s)
    /\ trace' = Append(trace, ev)
    /\ outcome' = IF following(s) = "idle" THEN "returned" ELSE "running"
    /\ fetched' = (fetched \/ following(s) = "idle")

\* statement s raised exc: pull_data is left there and then
Raised(s, exc) ==
    /\ pc = s
    /\ pc' = "idle"
    /\ outcome' = exc
    /\ UNCHANGED <<trace, fetched>>

NotCalled == [kind |-> "NotCalled"]

\* TeamStats(): the session as __init__ leaves it
SessionInit ==
    /\ url = team_url("yankees")
    /\ hit_stats = NoneValue
    /\ pitch_stats = NoneValue
    /\ pc = "idle"
    /\ browsers = 0
    /\ location = ""
    /\ python_button = 0
    /\ trace = <<>>
    /\ call = [op |-> "__init__", arg |-> <<>>]
    /\ outcome = "returned"
    /\ output = NoneValue
    /\ start = [url |-> team_url("yankees"), hit_stats |-> NoneValue,
                pitch_stats |-> NoneValue]
    /\ fetched = FALSE

\* no clean_raw under study
ParseIdle ==
    /\ web_text = <<>>
    /\ head_ind_start = 0
    /\ parsed = NotCalled

\* no data_mung under study
MungIdle ==
    /\ stats_df = NoneValue
    /\ df_in = NoneValue
    /\ df_prev = NoneValue
    /\ mung_calls = 0
    /\ mung_raised = "none"

Init == SessionInit /\ ParseIdle /\ MungIdle

\* a call of an operation other than pull_data
Called(op, arg) ==
    /\ pc = "idle"
    /\ call' = [op |-> op, arg |-> arg]
    /\ start' = Snapshot
    /\ UNCHANGED <<pc, browsers, location, python_button, trace, fetched>>
    /\ UNCHANGED <<parseVars, mungVars>>

show_hit_stats ==
    /\ Called("show_hit_stats", <<>>)
    /\ output' = hit_stats
    /\ outcome' = "returned"
    /\ UNCHANGED <<url, hit_stats, pitch_stats>>

show_pitch_stats ==
    /\ Called("show_pitch_stats", <<>>)
    /\ output' = pitch_stats
    /\ outcome' = "returned"
    /\ UNCHANGED <<url, hit_stats, pitch_stats>>

get_stats ==
    /\ Called("get_stats", <<>>)
    /\ output' = <<hit_stats, pitch_stats>>
    /\ outcome' = "returned"
    /\ UNCHANGED <<url, hit_stats, pitch_stats>>

\* new_team[0] of an empty list is an IndexError, and url is not assigned
change_url ==
    \E team_name \in TeamNames :
        /\ Called("change_url", team_name)
        /\ IF new_team_of[team_name] = <<>>
           THEN outcome' = "IndexError" /\ url' = url
           ELSE outcome' = "returned" /\ url' = team_url(new_team_of[team_name][1])
        /\ output' = NoneValue
        /\ UNCHANGED <<hit_stats, pitch_stats>>

\* pull_data is called and runs webdriver.Chrome(...)
pull_data_Chrome ==
    /\ pc = "idle"
    /\ browsers < MaxBrowsers
    /\ call' = [op |-> "pull_data", arg |-> <<>>]
    /\ start' = Snapshot
    /\ \/ /\ pc' = following("Chrome")
          /\ browsers' = browsers + 1
          /\ trace' = <<<<"Chrome", 0>>>>
          /\ outcome' = "running"
       \/ /\ pc' = "idle"
          /\ browsers' = browsers
          /\ trace' = <<>>
          /\ outcome' = "WebDriverException"
    /\ output' = NoneValue
    /\ UNCHANGED <<url, hit_stats, pitch_stats, location, python_button, fetched>>
    /\ UNCHANGED <<parseVars, mungVars>>

\* driver.get(self.url)
pull_data_get ==
    /\ \/ Ran("get", <<"get", 0>>) /\ location' = url
       \/ Raised("get", "WebDriverException") /\ location' = location
    /\ UNCHANGED <<url, hit_stats, pitch_stats, browsers, python_button, call, output, start>>
    /\ UNCHANGED <<parseVars, mungVars>>

\* time.sleep(5), both of them
pull_data_sleep ==
    /\ \/ Ran("sleep1", <<"sleep", SleepSeconds>>)
       \/ Ran("sleep2", <<"sleep", SleepSeconds>>)
    /\ UNCHANGED <<url, hit_stats, pitch_stats, browsers, location, python_button, call,
                   output, start>>
    /\ UNCHANGED <<parseVars, mungVars>>

\* driver.find_element_by_xpath(div_xpath), both of them
pull_data_find_element ==
    /\ \/ Ran("find_hit", <<"find_element", 0>>)
       \/ Raised("find_hit", "NoSuchElementException")
       \/ Ran("find_pitch", <<"find_element", 0>>)
       \/ Raised("find_pitch", "NoSuchElementException")
    /\ UNCHANGED <<url, hit_stats, pitch_stats, browsers, location, python_button, call,
                   output, start>>
    /\ UNCHANGED <<parseVars, mungVars>>

\* self.hit_stats = clean_raw(team_stats_hit, 18)
pull_data_clean_raw_hit ==
    /\ pc = "clean_raw_hit"
    /\ \E text \in PageTexts :
          IF clean_raw_of[text][HitHeaderCount].kind = "raise"
          THEN /\ Raised("clean_raw_hit", clean_raw_of[text][HitHeaderCount].exc)
               /\ hit_stats' = hit_stats
          ELSE /\ Ran("clean_raw_hit", <<"clean_raw", HitHeaderCount>>)
               /\ hit_stats' = clean_raw_of[text][HitHeaderCount]
    /\ UNCHANGED <<url, pitch_stats, browsers, location, python_button, call, output, start>>
    /\ UNCHANGED <<parseVars, mungVars>>

\* python_button = driver.find_elements_by_xpath(...): a list, empty when
\* nothing matches
pull_data_find_button ==
    /\ \E found \in {0, 1} :
          /\ Ran("find_button", <<"find_elements", 0>>)
          /\ python_button' = found
    /\ UNCHANGED <<url, hit_stats, pitch_stats, browsers, location, call, output, start>>
    /\ UNCHANGED <<parseVars, mungVars>>

\* python_button[0].click(), both of them
pull_data_click ==
    /\ \E s \in {"click1", "click2"} :
          IF python_button = 0
          THEN Raised(s, "IndexError")
          ELSE \/ Ran(s, <<"click", 0>>)
               \/ Raised(s, "WebDriverException")
    /\ UNCHANGED <<url, hit_stats, pitch_stats, browsers, location, python_button, call,
                   output, start>>
    /\ UNCHANGED <<parseVars, mungVars>>

\* self.pitch_stats = clean_raw(team_stats_pitch, 21)
pull_data_clean_raw_pitch ==
    /\ pc = "clean_raw_pitch"
    /\ \E text \in PageTexts :
          IF clean_raw_of[text][PitchHeaderCount].kind = "raise"
          THEN /\ Raised("clean_raw_pitch", clean_raw_of[text][PitchHeaderCount].exc)
               /\ pitch_stats' = pitch_stats
          ELSE /\ Ran("clean_raw_pitch", <<"clean_raw", PitchHeaderCount>>)
               /\ pitch_stats' = clean_raw_of[text][PitchHeaderCount]
    /\ UNCHANGED <<url, hit_stats, browsers, location, python_button, call, output, start>>
    /\ UNCHANGED <<parseVars, mungVars>>

\* driver.quit()
pull_data_quit ==
    /\ Ran("quit", <<"quit", 0>>)
    /\ browsers' = browsers - 1
    /\ UNCHANGED <<url, hit_stats, pitch_stats, location, python_button, call, output, start>>
    /\ UNCHANGED <<parseVars, mungVars>>

\* data_mung(self.hit_stats): edits the table in place, also when it raises
pull_data_data_mung_hit ==
    /\ pc = "data_mung_hit"
    /\ LET munged == data_mung(hit_stats)
       IN  /\ hit_stats' = munged.df
           /\ IF munged.raised = "none"
              THEN Ran("data_mung_hit", <<"data_mung_hit", 0>>)
              ELSE Raised("data_mung_hit", munged.raised)
    /\ UNCHANGED <<url, pitch_stats, browsers, location, python_button, call, output, start>>
    /\ UNCHANGED <<parseVars, mungVars>>

\* data_mung(self.pitch_stats)
pull_data_data_mung_pitch ==
    /\ pc = "data_mung_pitch"
    /\ LET munged == data_mung(pitch_stats)
       IN  /\ pitch_stats' = munged.df
           /\ IF munged.raised = "none"
              THEN Ran("data_mung_pitch", <<"data_mung_pitch", 0>>)
              ELSE Raised("data_mung_pitch", munged.raised)
    /\ UNCHANGED <<url, hit_stats, browsers, location, python_button, call, output, start>>
    /\ UNCHANGED <<parseVars, mungVars>>

Next ==
    \/ change_url
    \/ get_stats
    \/ show_hit_stats
    \/ show_pitch_stats
    \/ pull_data_Chrome
    \/ pull_data_get
    \/ pull_data_sleep
    \/ pull_data_find_element
    \/ pull_data_clean_raw_hit
    \/ pull_data_find_button
    \/ pull_data_click
    \/ pull_data_clean_raw_pitch
    \/ pull_data_quit
    \/ pull_data_data_mung_hit
    \/ pull_data_data_mung_pitch

Spec == Init /\ [][Next]_vars

-----------------------------------------------------------------------------
(* clean_raw on its own: one call on each text of a bounded family *)

\* the most header lines, and the most lines after them, of a text
MaxHead == 5
MaxData == 6

HeaderNames == <<<<"T","E","A","M">>, <<"W">>, <<"A","V","G">>, <<"L">>, <<"I","P">>, <<"G">>, <<"E","R","A">>, <<"H">>>>

RECURSIVE JoinWith(_, _)
\* sep.join(pieces)
JoinWith(pieces, sep) ==
    IF pieces = <<>> THEN <<>>
    ELSE IF Len(pieces) = 1 THEN pieces[1]
    ELSE pieces[1] \o <<sep>> \o JoinWith(Tail(pieces), sep)

\* a data line of hd - 1 fields (the empty line for hd = 1)
DataLine(hd) == JoinWith([j \in 1..(hd - 1) |-> <<"7">>], Space)

\* the lines a text is put together from: two characters (a row number, or
\* a team name that short), a team name of two words, a data line
LineChoices(hd) == {<<"1","2">>, <<"R","e","d"," ","S","o","x">>, DataLine(hd)}

Bodies(hd) == UNION {[1..n -> LineChoices(hd)] : n \in 0..MaxData}

ParseInit ==
    /\ SessionInit
    /\ MungIdle
    /\ parsed = NotCalled
    /\ \E hd \in 1..MaxHead :
          /\ head_ind_start = hd
          /\ \/ \E body \in Bodies(hd) :
                   web_text = JoinWith(SubSeq(HeaderNames, 1, hd) \o body, Newline)
             \/ web_text \in {<<>>, <<"T","E","A","M">>}

call_clean_raw ==
    /\ parsed = NotCalled
    /\ parsed' = clean_raw(web_text, head_ind_start)
    /\ UNCHANGED <<web_text, head_ind_start>>
    /\ UNCHANGED <<sessionVars, mungVars>>

ParseNext == call_clean_raw

SpecParse == ParseInit /\ [][ParseNext]_vars

-----------------------------------------------------------------------------
(* data_mung on its own: repeated calls on each table of a bounded family *)

\* the most rows of a table, and the most calls of data_mung on it
MaxRows == 2
MaxMungCalls == 2

MungColumns == {<<"T","E","A","M">>, <<"W">>, <<"A","V","G">>}
MungCells == {StrVal(<<"1","0">>), StrVal(<<".","2","5","0">>), StrVal(<<"N","Y","Y">>), NoneValue}

\* a freshly parsed table: every column of dtype object
ObjectFrame(cols, rows) ==
    [kind |-> "DataFrame", columns |-> cols,
     dtypes |-> [j \in 1..Len(cols) |-> "object"], rows |-> rows]

ColumnLists == {cols \in [1..2 -> MungColumns] : cols[1] # cols[2]}

MungInit ==
    /\ SessionInit
    /\ ParseIdle
    /\ \E cols \in ColumnLists : \E n \in 0..MaxRows :
          \E rows \in [1..n -> [1..2 -> MungCells]] :
             stats_df = ObjectFrame(cols, rows)
    /\ df_in = stats_df
    /\ df_prev = stats_df
    /\ mung_calls = 0
    /\ mung_raised = "none"

call_data_mung ==
    /\ mung_calls < MaxMungCalls
    /\ LET munged == data_mung(stats_df)
       IN  /\ stats_df' = munged.df
           /\ mung_raised' = munged.raised
    /\ df_prev' = stats_df
    /\ mung_calls' = mung_calls + 1
    /\ UNCHANGED df_in
    /\ UNCHANGED <<sessionVars, parseVars>>

MungNext == call_data_mung

SpecMung == MungInit /\ [][MungNext]_vars

-----------------------------------------------------------------------------
(* Properties of the session *)

\* two characters that are the same letter, whatever their case
SameIgnoringCase(a, b) ==
    a = b \/ \E i \in 1..Len(UpperCase) : {a, b} = {UpperCase[i], LowerCase[i]}

\* the display name of entry i contains the name, ignoring case
NameMatches(team_name, i) ==
    \E off \in 0..(Len(teams[i][1]) - Len(team_name)) :
        \A k \in 1..Len(team_name) : SameIgnoringCase(team_name[k], teams[i][1][off + k])

\* the first entry, in list order, that matches (0: none does)
FirstMatch == [team_name \in TeamNames |->
                 IF \E i \in 1..Len(teams) : NameMatches(team_name, i)
                 THEN CHOOSE i \in 1..Len(teams) :
                        /\ NameMatches(team_name, i)
                        /\ \A j \in 1..(i - 1) : ~ NameMatches(team_name, j)
                 ELSE 0]

\* C1: after change_url with a team name that some display name contains
\* (ignoring case), the call has returned and the URL is
\* https://www.mlb.com/<slug>/stats/team/ for the slug of the first entry,
\* in list order, whose display name contains it.
C1_UrlOfFirstMatch ==
    (call.op = "change_url" /\ FirstMatch[call.arg] > 0)
        => /\ outcome = "returned"
           /\ url = "https://www.mlb.com/" \o teams[FirstMatch[call.arg]][2] \o "/stats/team/"

\* a change_url whose name matches several entries, the first of them not
\* the first of the list
C1_Witness ==
    /\ call.op = "change_url"
    /\ Cardinality({i \in 1..Len(teams) : NameMatches(call.arg, i)}) > 1
    /\ FirstMatch[call.arg] > 1
    /\ outcome = "returned"

\* C2: change_url with a team name that matches no entry ends in an explicit
\* not-found error: it neither returns nor fails with an IndexError.
C2_NotFoundIsExplicit ==
    (call.op = "change_url" /\ FirstMatch[call.arg] = 0)
        => outcome \notin {"returned", "IndexError"}

\* C7: the tables change only by a pull_data that runs to completion: a new
\* session has the default team's URL; change_url leaves both tables as they
\* were; the accessors leave url and tables as they were; pull_data leaves
\* url as it was; a pull_data that has ended without completing leaves both
\* tables as they were; and get_stats returns (None, None) as long as no
\* pull_data has completed.
C7_TablesChangeOnlyByFullFetch ==
    /\ call.op = "__init__"
          => /\ url = "https://www.mlb.com/yankees/stats/team/"
             /\ hit_stats = NoneValue /\ pitch_stats = NoneValue
    /\ call.op = "change_url"
          => hit_stats = start.hit_stats /\ pitch_stats = start.pitch_stats
    /\ call.op \in {"get_stats", "show_hit_stats", "show_pitch_stats"} => Snapshot = start
    /\ call.op = "pull_data" => url = start.url
    /\ (call.op = "pull_data" /\ outcome \notin {"running", "returned"})
          => hit_stats = start.hit_stats /\ pitch_stats = start.pitch_stats
    /\ (call.op = "get_stats" /\ ~ fetched) => output = <<NoneValue, NoneValue>>

IsPrefix(s, t) == Len(s) <= Len(t) /\ SubSeq(t, 1, Len(s)) = s

\* the statements of a completed pull_data as the source orders them
SourceOrder ==
    << <<"Chrome", 0>>, <<"get", 0>>, <<"sleep", 5>>, <<"find_element", 0>>,
       <<"clean_raw", 18>>, <<"find_elements", 0>>, <<"click", 0>>, <<"click", 0>>,
       <<"sleep", 5>>, <<"find_element", 0>>, <<"clean_raw", 21>>, <<"quit", 0>>,
       <<"data_mung_hit", 0>>, <<"data_mung_pitch", 0>> >>

\* and as the claim orders them: the browser released last
ClaimedOrder ==
    << <<"Chrome", 0>>, <<"get", 0>>, <<"sleep", 5>>, <<"find_element", 0>>,
       <<"clean_raw", 18>>, <<"find_elements", 0>>, <<"click", 0>>, <<"click", 0>>,
       <<"sleep", 5>>, <<"find_element", 0>>, <<"clean_raw", 21>>,
       <<"data_mung_hit", 0>>, <<"data_mung_pitch", 0>>, <<"quit", 0>> >>

\* C9 (as amended): a pull_data runs its statements in this order: open the
\* browser, navigate to the current URL, wait, find the hitting block and
\* parse it with header count 18, find the button and click it exactly
\* twice, wait, find the pitching block and parse it with header count 21,
\* release the browser, and only then coerce the hitting table and the
\* pitching table; one that completes has run all of them.
C9_SourceOrder ==
    call.op = "pull_data"
        => /\ IsPrefix(trace, SourceOrder)
           /\ Len(trace) >= 2 => location = url
           /\ outcome = "returned" => trace = SourceOrder

\* a pull_data that has completed
C9_Witness ==
    /\ call.op = "pull_data"
    /\ outcome = "returned"
    /\ hit_stats.kind = "DataFrame"
    /\ pitch_stats.kind = "DataFrame"

\* C9 as stated: the same, with both tables coerced before the browser is
\* released.
C9_ReleaseAfterCoercion ==
    call.op = "pull_data"
        => /\ IsPrefix(trace, ClaimedOrder)
           /\ Len(trace) >= 2 => location = url
           /\ outcome = "returned" => trace = ClaimedOrder

\* C10: whenever no pull_data is in progress, no browser session is open:
\* every pull_data, however it ends, has released the session it opened.
C10_BrowserReleasedOnEveryPath == pc = "idle" => browsers = 0

-----------------------------------------------------------------------------
(* Properties of clean_raw *)

\* the lines of a text: the runs of characters between its line breaks
LineBreaks(text) == {i \in 1..Len(text) : text[i] = Newline}
LinesOf(text) ==
    LET breaks == LineBreaks(text)
        ends == [n \in 1..(Cardinality(breaks) + 1) |->
                    IF n = Cardinality(breaks) + 1 THEN Len(text) + 1
                    ELSE CHOOSE x \in breaks : Cardinality({y \in breaks : y < x}) = n - 1]
    IN  [n \in 1..(Cardinality(breaks) + 1) |->
            SubSeq(text, IF n = 1 THEN 1 ELSE ends[n - 1] + 1, ends[n] - 1)]

\* the lines after the first hd
After(lines, hd) == SubSeq(lines, hd + 1, Len(lines))

SpacesIn(line) == {i \in 1..Len(line) : line[i] = Space}
FieldCount(line) == Cardinality(SpacesIn(line)) + 1

\* the n-th smallest member of a set of numbers
NthOf(S, n) == CHOOSE x \in S : Cardinality({y \in S : y < x}) = n - 1

\* the n-th space-separated field of a line
Field(line, n) ==
    LET spaces == SpacesIn(line)
    IN  SubSeq(line,
               IF n = 1 THEN 1 ELSE NthOf(spaces, n - 1) + 1,
               IF n = Cardinality(spaces) + 1 THEN Len(line) ELSE NthOf(spaces, n) - 1)

\* the lines are hd header lines followed by triplets of a marker line (at
\* most 2 characters), a team-name line and a data line of hd - 1
\* space-separated fields
Valid(lines, hd) ==
    /\ Len(lines) >= hd
    /\ (Len(lines) - hd) % 3 = 0
    /\ \A t \in 0..(((Len(lines) - hd) \div 3) - 1) :
          /\ Len(lines[hd + 3 * t + 1]) <= 2
          /\ FieldCount(lines[hd + 3 * t + 3]) = hd - 1

ValidInput == Valid(LinesOf(web_text), head_ind_start)

\* the (0-based) positions, the final two excluded, whose line has at most
\* 2 characters
Markers(data) == {p \in 0..(Len(data) - 3) : Len(data[p + 1]) <= 2}

\* the row the marker at position p stands for
RowOf(data, p) ==
    <<StrVal(data[p + 2])>>
    \o [n \in 1..FieldCount(data[p + 3]) |-> StrVal(Field(data[p + 3], n))]

\* the lengths of the rows of the markers
RowLengths(data) == {1 + FieldCount(data[p + 3]) : p \in Markers(data)}

\* the table has the first hd lines as its columns, and one row for each
\* marker position
ShapeAsClaimed(lines, hd) ==
    /\ parsed.kind = "DataFrame"
    /\ Len(parsed.columns) = hd
    /\ parsed.columns = SubSeq(lines, 1, hd)
    /\ Len(parsed.rows) = Cardinality(Markers(After(lines, hd)))

\* C3 (as amended): for every valid input in which no recognized row is
\* longer than the header (always so for head_ind_start >= 5, the program's
\* 18 and 21 included), clean_raw returns a table of exactly head_ind_start
\* columns, named by the first head_ind_start lines in order, with one row
\* for each position, the final two excluded, whose line has at most 2
\* characters.
C3_ShapeOfValidInput ==
    parsed # NotCalled
        => LET lines == LinesOf(web_text)
               hd == head_ind_start
           IN  (/\ Valid(lines, hd)
                /\ hd >= 5 \/ \A n \in RowLengths(After(lines, hd)) : n <= hd)
                   => ShapeAsClaimed(lines, hd)

\* two triplets, both team names of at most two characters: the first one
\* counts as a marker, the second one is among the final two lines and does
\* not
C3_Witness ==
    /\ parsed # NotCalled
    /\ ValidInput
    /\ head_ind_start >= 5
    /\ LET data == After(LinesOf(web_text), head_ind_start)
       IN  /\ Len(data) = 6
           /\ Len(data[2]) <= 2
           /\ Len(data[5]) <= 2
    /\ Len(parsed.rows) = 3

\* C3 as stated: the same for every valid input.
C3_ShapeOfEveryValidInput ==
    parsed # NotCalled
        => LET lines == LinesOf(web_text)
           IN  Valid(lines, head_ind_start) => ShapeAsClaimed(lines, head_ind_start)

\* C4: in the table clean_raw returns, the k-th row is the row of the k-th
\* marker position in scan order: the line after the marker, then the
\* space-separated fields of the line two after it (then missing values up
\* to the width of the table); so the first cell of every row is the line
\* that followed its marker.
C4_RowsFollowMarkers ==
    parsed.kind = "DataFrame"
        => LET data == After(LinesOf(web_text), head_ind_start)
               markers == Markers(data)
           IN  /\ Len(parsed.rows) = Cardinality(markers)
               /\ \A k \in 1..Len(parsed.rows) :
                     LET p == NthOf(markers, k)
                     IN  /\ parsed.rows[k] = Padded(RowOf(data, p), Len(parsed.columns))
                         /\ parsed.rows[k][1] = StrVal(data[p + 2])

\* a table of two full rows, the second for a team name of two words
C4_Witness ==
    /\ parsed.kind = "DataFrame"
    /\ Len(parsed.rows) = 2
    /\ head_ind_start >= 3
    /\ parsed.rows[2][1] = StrVal(<<"R","e","d"," ","S","o","x">>)
    /\ parsed.rows[1][head_ind_start] # NoneValue
    /\ parsed.rows[2][head_ind_start] # NoneValue

\* C8 (as amended): clean_raw returns a table when it recognizes no row or
\* when its longest row is exactly as long as the header (shorter rows are
\* filled with missing values); otherwise, the longest row being longer or
\* shorter than the header, it fails with a ValueError.
C8_RaisesOnWidthMismatch ==
    parsed # NotCalled
        => LET lines == LinesOf(web_text)
               hd == head_ind_start
               lengths == RowLengths(After(lines, hd))
           IN  IF lengths = {} \/ Max(lengths) = (IF hd <= Len(lines) THEN hd ELSE Len(lines))
               THEN parsed.kind = "DataFrame"
               ELSE parsed = Raise("ValueError")

\* a malformed text (no triplet structure) for which a table with a
\* filled-up row is returned
C8_Witness ==
    /\ parsed.kind = "DataFrame"
    /\ ~ ValidInput
    /\ \E k \in 1..Len(parsed.rows) : parsed.rows[k][head_ind_start] = NoneValue

\* C8 as stated: clean_raw returns a table for every text and header count.
C8_NeverRaises == parsed # NotCalled => parsed.kind = "DataFrame"

-----------------------------------------------------------------------------
(* Properties of data_mung *)

FloatNames == {<<"A","V","G">>, <<"O","B","P">>, <<"S","L","G">>, <<"O","P","S">>, <<"I","P">>, <<"E","R","A">>, <<"W","H","I","P">>}

C6_Idempotent == mung_calls >= 2 => stats_df = df_prev

\* a second call on a table whose first call made one column integer and
\* one floating-point
C6_Witness ==
    /\ mung_calls = 2
    /\ Len(stats_df.rows) > 0
    /\ \E j \in 1..2 : stats_df.dtypes[j] = "int"
    /\ \E j \in 1..2 : stats_df.dtypes[j] = "float32" /\ stats_df.rows[1][j].places > 0

====
